---------------------------- MODULE Spec2Model ----------------------------
(***************************************************************************)
(* The three export scripts of the repository, each a straight-line        *)
(* program run inside the host's Python interpreter:                       *)
(*                                                                         *)
(*   src/export_models.py          adds two modifiers to every object and  *)
(*                                 exports PLY                             *)
(*   src/scripts/export_blender.py rotates every MESH object, cycles it     *)
(*                                 through EDIT mode, bakes the material   *)
(*                                 colour into a colour attribute and      *)
(*                                 exports GLB                             *)
(*   src/scripts/export_svg.py     clears the scene, parses the path ids   *)
(*                                 and styles of an SVG, imports it, turns *)
(*                                 every curve into a mesh object and      *)
(*                                 saves the main file                     *)
(*                                                                         *)
(* A run is one behaviour: Init chooses the script, the command line and   *)
(* the scene; export_svg reads its SVG document when it parses the file.   *)
(* One action models one statement, or one short group of statements, of   *)
(* the script.  A Python exception ends the run in pc = "error".           *)
(*                                                                         *)
(* Host operations are modelled by their effect on the scene data the      *)
(* scripts read: the scene is the sequence bpy.data.objects of object      *)
(* records, the meshes and materials they point to, the active object and  *)
(* the editor mode.                                                        *)
(***************************************************************************)
EXTENDS Integers, Sequences, FiniteSets, TLC

\* ------------------------------------------------------------------ bounds
\* Most objects in the scene a run starts with.
MaxObjs == 2
\* Most <path> elements in the SVG document.
MaxPaths == 2
\* Most curve objects the SVG import creates.
MaxCurves == 2
\* Longest style attribute (in lexemes) enumerated exhaustively.
MaxStyleLen == 3

\* ------------------------------------------------------- program constants
\* (ids[obj.name] / total) / 64.0 + 0.005, kept exact as a fraction of
\* thousandths: 0.005 = ZBase / Milli.
ZDiv == 64
ZBase == 5
Milli == 1000

None == "None"

VARIABLES
    script,     \* which of the three scripts runs
    argv,       \* sys.argv
    pc,         \* the statement about to run; "done" and "error" end a run
    err,        \* the exception that ended the run, None otherwise
    objects,    \* bpy.data.objects, in collection order
    meshes,     \* bpy.data.meshes: mesh name -> colour attributes
    materials,  \* bpy.data.materials: material name -> diffuse colour, alpha
    active,     \* bpy.context.view_layer.objects.active (an object id, 0: none)
    mode,       \* the editor mode, "OBJECT" or "EDIT"
    iterNext,   \* the running bpy collection iterator: id it yields next, 0: exhausted
    obj,        \* the loop variable (an object id, 0 outside the loops)
    visited,    \* ids whose loop body has run to its end, in order
    opsLog,     \* host operators invoked so far, in order, with their file path
    mode0,      \* the editor mode the run started in
    edge_split, \* export_models: what modifiers.new returned at line 7: the
                \* position of the new modifier in the object's stack, 0: None
    attribs,    \* export_svg: the SVG's <path> attribute maps, in document order
    ids,        \* export_svg: dict id -> index
    styles,     \* export_svg: dict id -> dict key -> value
    total,      \* export_svg: float(len(attribs))
    curves,     \* export_svg: the list of CURVE object ids taken at line 25
    ci,         \* export_svg: position in curves of the iteration under way
    new_obj,    \* export_svg: id of the object created at line 30, 0: none
    idx,        \* export_svg: the value ids[obj.name] yielded at line 33
    nextId      \* the id the next created object gets

vars == <<script, argv, pc, err, objects, meshes, materials, active, mode,
          iterNext, obj, visited, opsLog, mode0, edge_split, attribs, ids,
          styles, total, curves, ci, new_obj, idx, nextId>>

\* Variables of export_svg's locals, untouched by the other scripts.
svgLocals == <<attribs, ids, styles, total, curves, ci, new_obj, idx>>

\* ---------------------------------------------------------------- helpers
\* All sequences over S of length at most n.
SeqsUpTo(S, n) == UNION {[1..k -> S] : k \in 0..n}

Injective(s) == \A i, j \in DOMAIN s : i # j => s[i] # s[j]

\* First position of x in s, 0 when absent.
IndexOf(s, x) ==
    IF \E i \in DOMAIN s : s[i] = x
    THEN CHOOSE i \in DOMAIN s : s[i] = x /\ \A j \in 1..(i - 1) : s[j] # x
    ELSE 0

RemoveAt(s, i) == SubSeq(s, 1, i - 1) \o SubSeq(s, i + 1, Len(s))

ObjIds(objs) == {objs[i].id : i \in DOMAIN objs}

\* Position in objs of the object with this id, 0 when it is not there.
PosOf(objs, id) ==
    IF \E i \in DOMAIN objs : objs[i].id = id
    THEN CHOOSE i \in DOMAIN objs : objs[i].id = id
    ELSE 0

ObjOf(objs, id) == objs[PosOf(objs, id)]

\* ------------------------------------------------------------- the scene
\* Names are pairs <<base, n>>: <<"a", 0>> is "a", <<"a", 1>> is "a.001".
\* rot counts the half turns added to rotation_euler.z; dz is delta_location.z
\* as a fraction <<numerator, denominator>>, <<>> while it is untouched; dxy
\* counts the increments of delta_location.x and .y; edits lists the bmesh
\* operators applied to the object's mesh.
NewObject(id, type, name, data, material, linked, modifiers) ==
    [id |-> id, type |-> type, name |-> name, data |-> data,
     material |-> material, linked |-> linked, select |-> linked,
     rot |-> 0, modifiers |-> modifiers, matrix_world |-> "identity",
     dz |-> <<>>, dxy |-> 0, dims |-> "unscaled", edits |-> <<>>]

Modifier(name, type, angle) == [name |-> name, type |-> type, split_angle |-> angle]

\* The objects a starting scene is made of.  mesh1 is shared by three of
\* them; "Orphan" is in bpy.data.objects but in no collection of the view
\* layer, so it cannot be made active; the curve and the camera are not
\* meshes, and the camera takes no modifiers.
Templates ==
    { NewObject(0, "MESH", <<"Cube", 0>>, "mesh1", "M1", TRUE, <<>>),
      NewObject(0, "MESH", <<"Cube", 1>>, "mesh1", "M2", TRUE, <<>>),
      NewObject(0, "MESH", <<"Plane", 0>>, "mesh1", None, TRUE, <<>>),
      NewObject(0, "MESH", <<"Painted", 0>>, "mesh2", "M1", TRUE,
                <<Modifier("Subdivision", "SUBSURF", None)>>),
      NewObject(0, "MESH", <<"Orphan", 0>>, "mesh3", "M1", FALSE, <<>>),
      NewObject(0, "CURVE", <<"Path", 0>>, "curve1", "M2", TRUE, <<>>),
      NewObject(0, "CAMERA", <<"Camera", 0>>, "camera1", None, TRUE, <<>>) }

\* Every scene of at most MaxObjs distinct objects, numbered 1..n in
\* collection order.  Object names are unique in the host, and these scripts
\* never rename an object the run started with: Original gives back the
\* state such an object started in.
Scenes ==
    { [i \in DOMAIN s |-> [s[i] EXCEPT !.id = i]] :
        s \in {t \in SeqsUpTo(Templates, MaxObjs) : Injective(t)} }

Original(o) == [(CHOOSE t \in Templates : t.name = o.name) EXCEPT !.id = o.id]

\* Objects the run started with are numbered up to MaxObjs; the objects a
\* run creates are numbered from MaxObjs + 1.
PreExisting(o) == o.id <= MaxObjs

ColourAttribute(name, type, domain, data) ==
    [name |-> name, type |-> type, domain |-> domain, data |-> data]

\* mesh2 was painted by hand: it already has a colour attribute.
Meshes0 ==
    [m \in {"mesh1", "mesh2", "mesh3"} |->
        [corners |-> IF m = "mesh1" THEN 2 ELSE 1,
         select_all |-> FALSE,
         color_attributes |->
            IF m = "mesh2"
            THEN <<ColourAttribute("Paint", "FLOAT_COLOR", "POINT", <<"white">>)>>
            ELSE <<>>,
         active_color |-> IF m = "mesh2" THEN "Paint" ELSE None]]

Materials0 ==
    [m \in {"M1", "M2"} |->
        [diffuse_color |-> IF m = "M1" THEN "red" ELSE "blue", alpha |-> "1.0"]]

\* sys.argv: the host's own arguments, then the script's.
Argvs ==
    { <<"blender", "in.svg", "out.file">>,
      <<"in.svg", "out.file", "in.svg">> }

Scripts == {"export_models", "export_blender", "export_svg"}

\* -------------------------------------------------------- the SVG document
\* Strings that are split are sequences of lexemes: the separators ":" and
\* ";" are lexemes of their own, every other lexeme is a run of characters
\* holding neither.
Lexemes == {"fill-opacity", "0.5", ":", ";"}

\* A <path> element's attrib: a dict with the keys among "id" and "style".
Attrib(id, style) == [k \in {"id", "style"} |-> IF k = "id" THEN id ELSE style]
AttribNoStyle(id) == [k \in {"id"} |-> id]
AttribNoId(style) == [k \in {"style"} |-> style]

PathIds == {<<"a", 0>>, <<"b", 0>>}

\* fill:#f00;fill-opacity:0.5;fill-opacity:1        fill:#f00;
LongStyles ==
    { <<"fill", ":", "#f00", ";", "fill-opacity", ":", "0.5", ";", "fill-opacity", ":", "1">>,
      <<"fill", ":", "#f00", ";">> }

SomeAttribs ==
    {Attrib(i, s) : i \in PathIds, s \in LongStyles}
        \cup {AttribNoStyle(i) : i \in PathIds}
        \cup {AttribNoId(<<"fill-opacity", ":", "0.5">>)}

\* The documents a run may be given: up to MaxPaths paths with the styles
\* above, or one path with any style of at most MaxStyleLen lexemes.
Documents ==
    SeqsUpTo(SomeAttribs, MaxPaths)
        \cup {<<Attrib(<<"a", 0>>, s)>> : s \in SeqsUpTo(Lexemes, MaxStyleLen)}

\* ------------------------------------------------------------------- Init
FirstId(objs) == IF objs = <<>> THEN 0 ELSE objs[1].id

StartOf(s) ==
    CASE s = "export_models" -> "m6"
      [] s = "export_blender" -> "b7"
      [] s = "export_svg" -> "s7"

Init ==
    /\ script \in Scripts
    /\ argv \in Argvs
    /\ pc = StartOf(script)
    /\ err = None
    /\ objects \in Scenes
    /\ meshes = Meshes0
    /\ materials = Materials0
    /\ active \in {0} \cup {objects[i].id : i \in {j \in DOMAIN objects : objects[j].linked}}
    /\ mode \in {"OBJECT"} \cup
                (IF active # 0 /\ ObjOf(objects, active).type = "MESH"
                 THEN {"EDIT"} ELSE {})
    /\ iterNext = 0
    /\ obj = 0
    /\ visited = <<>>
    /\ opsLog = <<>>
    /\ mode0 = mode
    /\ edge_split = 0
    /\ attribs = <<>>
    /\ ids = <<>>
    /\ styles = <<>>
    /\ total = 0
    /\ curves = <<>>
    /\ ci = 0
    /\ new_obj = 0
    /\ idx = 0
    /\ nextId = MaxObjs + 1

\* ------------------------------------------------------- shared machinery
\* An exception: the run ends where it is.
Raise(e) ==
    /\ pc' = "error"
    /\ err' = e

Log(op, arg) == opsLog' = Append(opsLog, [op |-> op, arg |-> arg])

\* The id after p in collection order, 0 when p is the last (or not there).
Successor(objs, p) ==
    LET i == PosOf(objs, p)
    IN  IF i = 0 \/ i = Len(objs) THEN 0 ELSE objs[i + 1].id

\* Index-based stepping: what the iterator of a Python list would do across
\* the removal of the element just yielded.
SuccessorOfSuccessor(objs, p) == Successor(objs, Successor(objs, p))

\* The iterator of a bpy collection steps to the element after the one it
\* is about to yield before it hands that one to the loop body, so the body
\* may remove the yielded object from the collection.
NextAfterYield(objs, p) == Successor(objs, p)

\* sys.argv[-2]
ArgBeforeLast == argv[Len(argv) - 1]

\* sys.argv[-1]
LastArg == argv[Len(argv)]

\* ---------------------------------------------------- src/export_models.py
SupportsModifiers(type) == type \in {"MESH", "CURVE"}

\* line 6: for object in bpy.data.objects -- the iterator is made
M6_Iter ==
    /\ pc = "m6"
    /\ iterNext' = FirstId(objects)
    /\ pc' = "m6_next"
    /\ UNCHANGED <<script, argv, err, objects, meshes, materials, active, mode,
                   obj, visited, opsLog, mode0, edge_split, nextId>>
    /\ UNCHANGED svgLocals

\* line 6: the next object, or the end of the loop
M6_Next ==
    /\ pc = "m6_next"
    /\ IF iterNext = 0
       THEN /\ pc' = "m11"
            /\ UNCHANGED <<obj, iterNext>>
       ELSE /\ pc' = "m7"
            /\ obj' = iterNext
            /\ iterNext' = NextAfterYield(objects, iterNext)
    /\ UNCHANGED <<script, argv, err, objects, meshes, materials, active, mode,
                   visited, opsLog, mode0, edge_split, nextId>>
    /\ UNCHANGED svgLocals

\* object.modifiers.new(name, type): the modifier is appended to the stack
\* and returned; an object of a type that takes no modifiers gets none and
\* None is returned.
ModifiersNew(o, name, type, angle) ==
    IF SupportsModifiers(o.type)
    THEN [o EXCEPT !.modifiers = Append(@, Modifier(name, type, angle))]
    ELSE o

\* line 7: edge_split = object.modifiers.new(name="EdgeSplit", type='EDGE_SPLIT')
M7_EdgeSplit ==
    /\ pc = "m7"
    /\ LET i == PosOf(objects, obj)
           o == ModifiersNew(objects[i], "EdgeSplit", "EDGE_SPLIT", "default")
       IN  /\ objects' = [objects EXCEPT ![i] = o]
           /\ edge_split' = IF SupportsModifiers(objects[i].type)
                            THEN Len(o.modifiers) ELSE 0
    /\ pc' = "m8"
    /\ UNCHANGED <<script, argv, err, meshes, materials, active, mode, iterNext,
                   obj, visited, opsLog, mode0, nextId>>
    /\ UNCHANGED svgLocals

\* line 8 without its assignment: the modifier keeps the host's default angle.
M8_NoAngle ==
    /\ pc = "m8"
    /\ IF edge_split = 0
       THEN Raise("AttributeError")
       ELSE pc' = "m9" /\ UNCHANGED err
    /\ UNCHANGED <<script, argv, objects, meshes, materials, active, mode,
                   iterNext, obj, visited, opsLog, mode0, edge_split, nextId>>
    /\ UNCHANGED svgLocals

\* line 8: edge_split.split_angle = 0.0
M8_SplitAngle ==
    /\ pc = "m8"
    /\ IF edge_split = 0
       THEN /\ Raise("AttributeError")
            /\ UNCHANGED objects
       ELSE /\ objects' = [objects EXCEPT
                  ![PosOf(objects, obj)].modifiers[edge_split].split_angle = "0.0"]
            /\ pc' = "m9"
            /\ UNCHANGED err
    /\ UNCHANGED <<script, argv, meshes, materials, active, mode, iterNext,
                   obj, visited, opsLog, mode0, edge_split, nextId>>
    /\ UNCHANGED svgLocals

\* line 9: object.modifiers.new(name="Triangulate", type='TRIANGULATE')
M9_Triangulate ==
    /\ pc = "m9"
    /\ LET i == PosOf(objects, obj)
       IN  objects' = [objects EXCEPT
              ![i] = ModifiersNew(objects[i], "Triangulate", "TRIANGULATE", None)]
    /\ visited' = Append(visited, obj)
    /\ pc' = "m6_next"
    /\ UNCHANGED <<script, argv, err, meshes, materials, active, mode, iterNext,
                   obj, opsLog, mode0, edge_split, nextId>>
    /\ UNCHANGED svgLocals

\* line 11: bpy.ops.export_mesh.ply(filepath=sys.argv[-1], ...)
M11_ExportPly ==
    /\ pc = "m11"
    /\ Log("export_mesh.ply", LastArg)
    /\ pc' = "done"
    /\ UNCHANGED <<script, argv, err, objects, meshes, materials, active, mode,
                   iterNext, obj, visited, mode0, edge_split, nextId>>
    /\ UNCHANGED svgLocals

NextModels == M6_Iter \/ M6_Next \/ M7_EdgeSplit \/ M8_SplitAngle
                \/ M9_Triangulate \/ M11_ExportPly

\* -------------------------------------------- src/scripts/export_blender.py
\* lines 7-10: dst = sys.argv[-1]; the active object, if any, is deselected
B9_Deselect ==
    /\ pc = "b7"
    /\ objects' = IF active # 0
                  THEN [objects EXCEPT ![PosOf(objects, active)].select = FALSE]
                  ELSE objects
    /\ pc' = "b12"
    /\ UNCHANGED <<script, argv, err, meshes, materials, active, mode, iterNext,
                   obj, visited, opsLog, mode0, edge_split, nextId>>
    /\ UNCHANGED svgLocals

\* line 12: filter(lambda o: o.type == 'MESH', bpy.data.objects) -- lazy, over
\* the collection's iterator
B12_Iter ==
    /\ pc = "b12"
    /\ iterNext' = FirstId(objects)
    /\ pc' = "b12_next"
    /\ UNCHANGED <<script, argv, err, objects, meshes, materials, active, mode,
                   obj, visited, opsLog, mode0, edge_split, nextId>>
    /\ UNCHANGED svgLocals

\* The first object of the wanted type from p on in collection order, 0 when
\* there is none: what filter() draws from the collection's iterator.
RECURSIVE FirstOfType(_, _, _)
FirstOfType(objs, p, type) ==
    IF p = 0 THEN 0
    ELSE IF ObjOf(objs, p).type = type THEN p
    ELSE FirstOfType(objs, NextAfterYield(objs, p), type)

\* line 12: the next MESH object, or the end of the loop
B12_Next ==
    /\ pc = "b12_next"
    /\ LET m == FirstOfType(objects, iterNext, "MESH")
       IN  IF m = 0
           THEN /\ pc' = "b40"
                /\ iterNext' = 0
                /\ UNCHANGED obj
           ELSE /\ pc' = "b13"
                /\ obj' = m
                /\ iterNext' = NextAfterYield(objects, m)
    /\ UNCHANGED <<script, argv, err, objects, meshes, materials, active, mode,
                   visited, opsLog, mode0, edge_split, nextId>>
    /\ UNCHANGED svgLocals

\* line 13: obj.rotation_euler.z += -pi (rot counts the half turns)
B13_Rotate ==
    /\ pc = "b13"
    /\ objects' = [objects EXCEPT ![PosOf(objects, obj)].rot = @ - 1]
    /\ pc' = "b15"
    /\ UNCHANGED <<script, argv, err, meshes, materials, active, mode, iterNext,
                   obj, visited, opsLog, mode0, edge_split, nextId>>
    /\ UNCHANGED svgLocals

\* view_layer.objects.active = o: refused for an object the view layer does
\* not contain.
CanBeActive(o) == o.linked

\* line 15: bpy.context.view_layer.objects.active = obj
B15_SetActive ==
    /\ pc = "b15"
    /\ IF CanBeActive(ObjOf(objects, obj))
       THEN /\ active' = obj
            /\ Log("objects.active", obj)
            /\ pc' = "b17"
            /\ UNCHANGED err
       ELSE /\ Raise("RuntimeError")
            /\ UNCHANGED <<active, opsLog>>
    /\ UNCHANGED <<script, argv, objects, meshes, materials, mode, iterNext,
                   obj, visited, mode0, edge_split, nextId>>
    /\ UNCHANGED svgLocals

\* bpy.ops.object.mode_set(mode=m)
ModeSet(m) ==
    /\ mode' = m
    /\ Log("mode_set", m)

\* line 17: bpy.ops.object.mode_set(mode='EDIT')
B17_EditMode ==
    /\ pc = "b17"
    /\ ModeSet("EDIT")
    /\ pc' = "b18"
    /\ UNCHANGED <<script, argv, err, objects, meshes, materials, active,
                   iterNext, obj, visited, mode0, edge_split, nextId>>
    /\ UNCHANGED svgLocals

\* bpy.context.edit_object: the active object while the editor is in EDIT mode.
EditObject == IF mode = "EDIT" THEN active ELSE 0

\* lines 18-24: bm = bmesh.from_edit_mesh(bpy.context.edit_object.data); every
\* face, edge and vertex is selected
B18_SelectAll ==
    /\ pc = "b18"
    /\ IF EditObject = 0
       THEN /\ Raise("AttributeError")
            /\ UNCHANGED meshes
       ELSE /\ meshes' = [meshes EXCEPT
                  ![ObjOf(objects, EditObject).data].select_all = TRUE]
            /\ pc' = "b29"
            /\ UNCHANGED err
    /\ UNCHANGED <<script, argv, objects, materials, active, mode, iterNext,
                   obj, visited, opsLog, mode0, edge_split, nextId>>
    /\ UNCHANGED svgLocals

\* line 29: bmesh.update_edit_mesh(bpy.context.edit_object.data)
B29_UpdateEditMesh ==
    /\ pc = "b29"
    /\ IF EditObject = 0
       THEN /\ Raise("AttributeError")
            /\ UNCHANGED opsLog
       ELSE /\ Log("update_edit_mesh", EditObject)
            /\ pc' = "b30"
            /\ UNCHANGED err
    /\ UNCHANGED <<script, argv, objects, meshes, materials, active, mode,
                   iterNext, obj, visited, mode0, edge_split, nextId>>
    /\ UNCHANGED svgLocals

\* line 30 left out: the editor stays in EDIT mode.
B30_StayInEdit ==
    /\ pc = "b30"
    /\ pc' = "b32"
    /\ UNCHANGED <<script, argv, err, objects, meshes, materials, active, mode,
                   iterNext, obj, visited, opsLog, mode0, edge_split, nextId>>
    /\ UNCHANGED svgLocals

\* line 30: bpy.ops.object.mode_set(mode='OBJECT')
B30_ObjectMode ==
    /\ pc = "b30"
    /\ ModeSet("OBJECT")
    /\ pc' = "b32"
    /\ UNCHANGED <<script, argv, err, objects, meshes, materials, active,
                   iterNext, obj, visited, mode0, edge_split, nextId>>
    /\ UNCHANGED svgLocals

\* The test without its first half: obj.active_material alone.
WantsBakeWithMaterial(o) == o.material # None

\* line 32: not obj.data.color_attributes and obj.active_material
WantsBake(o) ==
    /\ meshes[o.data].color_attributes = <<>>
    /\ o.material # None

\* line 32: the test; an object that fails it is done
B32_Test ==
    /\ pc = "b32"
    /\ IF WantsBake(ObjOf(objects, obj))
       THEN /\ pc' = "b33"
            /\ UNCHANGED visited
       ELSE /\ pc' = "b12_next"
            /\ visited' = Append(visited, obj)
    /\ UNCHANGED <<script, argv, err, objects, meshes, materials, active, mode,
                   iterNext, obj, opsLog, mode0, edge_split, nextId>>
    /\ UNCHANGED svgLocals

\* color_attributes.new(name, type, domain): one element per corner, black;
\* the first colour attribute of a mesh becomes its active colour.
ColorAttributesNew(mesh, name, type, domain) ==
    [mesh EXCEPT
        !.color_attributes =
            Append(@, ColourAttribute(name, type, domain,
                                      [c \in 1..mesh.corners |-> "black"])),
        !.active_color = IF @ = None THEN name ELSE @]

\* line 33: obj.data.color_attributes.new(name='Col', type='BYTE_COLOR', domain='CORNER')
B33_NewAttribute ==
    /\ pc = "b33"
    /\ LET m == ObjOf(objects, obj).data
       IN  meshes' = [meshes EXCEPT
              ![m] = ColorAttributesNew(meshes[m], "Col", "BYTE_COLOR", "CORNER")]
    /\ pc' = "b35"
    /\ UNCHANGED <<script, argv, err, objects, materials, active, mode, iterNext,
                   obj, visited, opsLog, mode0, edge_split, nextId>>
    /\ UNCHANGED svgLocals

\* for datum in attribute.data: datum.color = color
FillColour(attr, color) == [attr EXCEPT !.data = [c \in DOMAIN @ |-> color]]

\* lines 35-38: every element of the active colour attribute is given the
\* active material's diffuse colour
B35_Fill ==
    /\ pc = "b35"
    /\ LET o == ObjOf(objects, obj)
           m == o.data
           color == materials[o.material].diffuse_color
           k == CHOOSE i \in DOMAIN meshes[m].color_attributes :
                    meshes[m].color_attributes[i].name = meshes[m].active_color
       IN  meshes' = [meshes EXCEPT
              ![m].color_attributes[k] = FillColour(@, color)]
    /\ visited' = Append(visited, obj)
    /\ pc' = "b12_next"
    /\ UNCHANGED <<script, argv, err, objects, materials, active, mode, iterNext,
                   obj, opsLog, mode0, edge_split, nextId>>
    /\ UNCHANGED svgLocals

\* lines 40-43: bpy.ops.export_scene.gltf(filepath=dst, ...)
B40_ExportGlb ==
    /\ pc = "b40"
    /\ Log("export_scene.gltf", LastArg)
    /\ pc' = "done"
    /\ UNCHANGED <<script, argv, err, objects, meshes, materials, active, mode,
                   iterNext, obj, visited, mode0, edge_split, nextId>>
    /\ UNCHANGED svgLocals

NextBlender == B9_Deselect \/ B12_Iter \/ B12_Next \/ B13_Rotate \/ B15_SetActive
                 \/ B17_EditMode \/ B18_SelectAll \/ B29_UpdateEditMesh
                 \/ B30_ObjectMode \/ B32_Test \/ B33_NewAttribute \/ B35_Fill
                 \/ B40_ExportGlb

\* ------------------------------------------------ src/scripts/export_svg.py
\* Python's None where a string may stand: no string is this sequence.
PyNone == <<None>>

\* s.split(sep) for a one-lexeme separator: the pieces between the
\* separators, one more than there are separators ("" splits to [""]).
RECURSIVE Split(_, _)
Split(s, sep) ==
    LET i == IndexOf(s, sep)
    IN  IF i = 0 THEN <<s>>
        ELSE <<SubSeq(s, 1, i - 1)>> \o Split(SubSeq(s, i + 1, Len(s)), sep)

\* d[k] = v
DictSet(d, k, v) == [x \in DOMAIN d \cup {k} |-> IF x = k THEN v ELSE d[x]]

\* d.get(k)
DictGet(d, k) == IF k \in DOMAIN d THEN d[k] ELSE PyNone

\* A dict that keeps the first value entered for a key.
RECURSIVE DictOfFirst(_)
DictOfFirst(pairs) ==
    IF pairs = <<>> THEN <<>>
    ELSE LET d == DictOfFirst(SubSeq(pairs, 1, Len(pairs) - 1))
             p == pairs[Len(pairs)]
         IN  IF p[1] \in DOMAIN d THEN d ELSE DictSet(d, p[1], p[2])

\* dict(pairs): the pairs are entered in order, a later one replacing an
\* earlier one of the same key.
RECURSIVE DictOf(_)
DictOf(pairs) ==
    IF pairs = <<>> THEN <<>>
    ELSE LET n == Len(pairs)
         IN  DictSet(DictOf(SubSeq(pairs, 1, n - 1)), pairs[n][1], pairs[n][2])

\* A check that lets longer elements through.
AtLeastPairs(pairs) == \A i \in DOMAIN pairs : Len(pairs[i]) >= 2

\* dict() takes only elements of length 2.
AllPairs(pairs) == \A i \in DOMAIN pairs : Len(pairs[i]) = 2

\* a.get('style') or 'ihate:python'
StyleOrDefault(a) ==
    LET st == DictGet(a, "style")
    IN  IF st = PyNone \/ st = <<>> THEN <<"ihate", ":", "python">> ELSE st

\* map(lambda p: p.split(':'), (a.get('style') or 'ihate:python').split(';'))
StylePieces(a) ==
    LET parts == Split(StyleOrDefault(a), ";")
    IN  [i \in DOMAIN parts |-> Split(parts[i], ":")]

\* line 19: the (id, index) pairs, indices from 0
IdPairs(as) == [i \in DOMAIN as |-> <<as[i]["id"], i - 1>>]

\* line 20: the (id, style dict) pairs
StylePairs(as) == [i \in DOMAIN as |-> <<as[i]["id"], DictOf(StylePieces(as[i]))>>]

\* lines 7-10: src = sys.argv[-2]; print(src); dst = sys.argv[-1]
Src == argv[Len(argv) - 1]

S7_Args ==
    /\ pc = "s7"
    /\ pc' = "s12"
    /\ UNCHANGED <<script, argv, err, objects, meshes, materials, active, mode,
                   iterNext, obj, visited, opsLog, mode0, edge_split, nextId>>
    /\ UNCHANGED svgLocals

\* line 12: for obj in bpy.data.objects -- the iterator is made
S12_Iter ==
    /\ pc = "s12"
    /\ iterNext' = FirstId(objects)
    /\ pc' = "s12_next"
    /\ UNCHANGED <<script, argv, err, objects, meshes, materials, active, mode,
                   obj, visited, opsLog, mode0, edge_split, nextId>>
    /\ UNCHANGED svgLocals

\* line 12: the next object, or the end of the loop
S12_Next ==
    /\ pc = "s12_next"
    /\ IF iterNext = 0
       THEN /\ pc' = "s15"
            /\ UNCHANGED <<obj, iterNext>>
       ELSE /\ pc' = "s13"
            /\ obj' = iterNext
            /\ iterNext' = NextAfterYield(objects, iterNext)
    /\ UNCHANGED <<script, argv, err, objects, meshes, materials, active, mode,
                   visited, opsLog, mode0, edge_split, nextId>>
    /\ UNCHANGED svgLocals

\* bpy.data.objects.remove(o): the object leaves the collection; if it was
\* the active object there is none any more, and the editor is back in
\* OBJECT mode.
ObjectsRemove(id) ==
    /\ objects' = RemoveAt(objects, PosOf(objects, id))
    /\ active' = IF active = id THEN 0 ELSE active
    /\ mode' = IF active = id THEN "OBJECT" ELSE mode

\* line 13: bpy.data.objects.remove(obj)
S13_Remove ==
    /\ pc = "s13"
    /\ ObjectsRemove(obj)
    /\ pc' = "s12_next"
    /\ UNCHANGED <<script, argv, err, meshes, materials, iterNext, obj, visited,
                   opsLog, mode0, edge_split, nextId>>
    /\ UNCHANGED svgLocals

\* lines 15-18: the file is parsed and the attribs of its <path> elements
\* are collected, in document order; a file that is no XML ends the run
S15_Parse ==
    /\ pc = "s15"
    /\ \/ /\ \E doc \in Documents : attribs' = doc
          /\ pc' = "s19"
          /\ UNCHANGED err
       \/ /\ Raise("ParseError")
          /\ UNCHANGED attribs
    /\ UNCHANGED <<script, argv, objects, meshes, materials, active, mode,
                   iterNext, obj, visited, opsLog, mode0, edge_split, nextId>>
    /\ UNCHANGED <<ids, styles, total, curves, ci, new_obj, idx>>

\* line 19: ids = dict(... (a['id'], index) ...)
S19_Ids ==
    /\ pc = "s19"
    /\ IF \E i \in DOMAIN attribs : "id" \notin DOMAIN attribs[i]
       THEN /\ Raise("KeyError")
            /\ UNCHANGED ids
       ELSE /\ ids' = DictOf(IdPairs(attribs))
            /\ pc' = "s20"
            /\ UNCHANGED err
    /\ UNCHANGED <<script, argv, objects, meshes, materials, active, mode,
                   iterNext, obj, visited, opsLog, mode0, edge_split, nextId>>
    /\ UNCHANGED <<attribs, styles, total, curves, ci, new_obj, idx>>

\* line 20: styles = dict(... (a['id'], dict(... p.split(':') ...)) ...)
S20_Styles ==
    /\ pc = "s20"
    /\ IF \E i \in DOMAIN attribs : ~AllPairs(StylePieces(attribs[i]))
       THEN /\ Raise("ValueError")
            /\ UNCHANGED styles
       ELSE /\ styles' = DictOf(StylePairs(attribs))
            /\ pc' = "s21"
            /\ UNCHANGED err
    /\ UNCHANGED <<script, argv, objects, meshes, materials, active, mode,
                   iterNext, obj, visited, opsLog, mode0, edge_split, nextId>>
    /\ UNCHANGED <<attribs, ids, total, curves, ci, new_obj, idx>>

\* line 21: total = float(len(attribs))
S21_Total ==
    /\ pc = "s21"
    /\ total' = Len(attribs)
    /\ pc' = "s23"
    /\ UNCHANGED <<script, argv, err, objects, meshes, materials, active, mode,
                   iterNext, obj, visited, opsLog, mode0, edge_split, nextId>>
    /\ UNCHANGED <<attribs, ids, styles, curves, ci, new_obj, idx>>

\* What the SVG import operator may leave in the scene: curve objects, with
\* names the host keeps distinct, each with the material of its fill or
\* none.  The importer names a curve after its element's id; elements other
\* than <path> become curves too, and a name already taken gets a suffix.
CurveNames == PathIds \cup {<<"a", 1>>}

Imports ==
    { c \in SeqsUpTo([name : CurveNames, material : {None, "M1"}], MaxCurves) :
        \A i, j \in DOMAIN c : i # j => c[i].name # c[j].name }

ImportedCurve(id, c) ==
    [NewObject(id, "CURVE", c.name, "curve", c.material, TRUE, <<>>)
        EXCEPT !.matrix_world = "svg"]

\* line 23: bpy.ops.import_curve.svg(filepath=src)
S23_Import ==
    /\ pc = "s23"
    /\ Log("import_curve.svg", Src)
    /\ \E c \in Imports :
          /\ \A i \in DOMAIN c : \A j \in DOMAIN objects : objects[j].name # c[i].name
          /\ objects' = objects \o [i \in DOMAIN c |-> ImportedCurve(nextId + i - 1, c[i])]
          /\ nextId' = nextId + Len(c)
    /\ pc' = "s25"
    /\ UNCHANGED <<script, argv, err, meshes, materials, active, mode, iterNext,
                   obj, visited, mode0, edge_split>>
    /\ UNCHANGED svgLocals

\* The ids of the objects of one type, in collection order.
RECURSIVE IdsOfType(_, _)
IdsOfType(objs, type) ==
    IF objs = <<>> THEN <<>>
    ELSE (IF Head(objs).type = type THEN <<Head(objs).id>> ELSE <<>>)
            \o IdsOfType(Tail(objs), type)

\* line 25: curves = list(filter(lambda o: o.type == 'CURVE', bpy.data.objects))
S25_Curves ==
    /\ pc = "s25"
    /\ curves' = IdsOfType(objects, "CURVE")
    /\ ci' = 0
    /\ pc' = "s27"
    /\ UNCHANGED <<script, argv, err, objects, meshes, materials, active, mode,
                   iterNext, obj, visited, opsLog, mode0, edge_split, nextId>>
    /\ UNCHANGED <<attribs, ids, styles, total, new_obj, idx>>

\* line 27: for obj in curves -- a Python list, stepped by position
S27_Next ==
    /\ pc = "s27"
    /\ IF ci >= Len(curves)
       THEN /\ pc' = "s67"
            /\ UNCHANGED <<obj, ci>>
       ELSE /\ pc' = "s28"
            /\ ci' = ci + 1
            /\ obj' = curves[ci + 1]
    /\ UNCHANGED <<script, argv, err, objects, meshes, materials, active, mode,
                   iterNext, visited, opsLog, mode0, edge_split, nextId>>
    /\ UNCHANGED <<attribs, ids, styles, total, curves, new_obj, idx>>

\* The name the host gives a new object asked to be called name: that name,
\* or, when it is taken, the base with the first free numeric suffix.
NameTaken(objs, n) == \E i \in DOMAIN objs : objs[i].name = n

UniqueName(objs, name) ==
    IF ~NameTaken(objs, name) THEN name
    ELSE <<name[1], CHOOSE k \in 1..(Len(objs) + 1) :
                /\ ~NameTaken(objs, <<name[1], k>>)
                /\ \A j \in 1..(k - 1) : NameTaken(objs, <<name[1], j>>)>>

\* lines 28-32: mesh = bpy.data.meshes.new_from_object(obj);
\* new_obj = bpy.data.objects.new(obj.name, mesh);
\* new_obj.matrix_world = obj.matrix_world.  The new object is in
\* bpy.data.objects at once, in no collection yet; its mesh carries the
\* curve's material.
S28_NewObject ==
    /\ pc = "s28"
    /\ LET o == ObjOf(objects, obj)
           n == [NewObject(nextId, "MESH", UniqueName(objects, o.name), "mesh",
                           o.material, FALSE, <<>>)
                    EXCEPT !.matrix_world = o.matrix_world]
       IN  objects' = Append(objects, n)
    /\ new_obj' = nextId
    /\ nextId' = nextId + 1
    /\ pc' = "s33"
    /\ UNCHANGED <<script, argv, err, meshes, materials, active, mode, iterNext,
                   obj, visited, opsLog, mode0, edge_split>>
    /\ UNCHANGED <<attribs, ids, styles, total, curves, ci, idx>>

\* ids.get(name, 0): a lookup that cannot fail.
LookupOrZero(d, name) == [found |-> TRUE,
                          value |-> IF name \in DOMAIN d THEN d[name] ELSE 0]

\* ids[name]: found is FALSE where Python raises KeyError
Lookup(d, name) == [found |-> name \in DOMAIN d,
                    value |-> IF name \in DOMAIN d THEN d[name] ELSE 0]

\* line 33, first half: ids[obj.name] is looked up
S33_Lookup ==
    /\ pc = "s33"
    /\ LET r == Lookup(ids, ObjOf(objects, obj).name)
       IN  IF r.found
           THEN /\ idx' = r.value
                /\ pc' = "s33_div"
                /\ UNCHANGED err
           ELSE /\ Raise("KeyError")
                /\ UNCHANGED idx
    /\ UNCHANGED <<script, argv, objects, meshes, materials, active, mode,
                   iterNext, obj, visited, opsLog, mode0, edge_split, nextId>>
    /\ UNCHANGED <<attribs, ids, styles, total, curves, ci, new_obj>>

\* The offset with a floor division, (i // t) / 64.0 + 0.005.
ZOffsetFloor(i, t) == <<Milli * (i \div t) * t + ZBase * ZDiv * t, Milli * ZDiv * t>>

\* (i / t) / 64.0 + 0.005 as the fraction (Milli * i + ZBase * ZDiv * t) /
\* (Milli * ZDiv * t)
ZOffset(i, t) == <<Milli * i + ZBase * ZDiv * t, Milli * ZDiv * t>>

\* line 33, second half: new_obj.delta_location.z = (idx / total) / 64.0 + 0.005
S33_Divide ==
    /\ pc = "s33_div"
    /\ IF total = 0
       THEN /\ Raise("ZeroDivisionError")
            /\ UNCHANGED objects
       ELSE /\ objects' = [objects EXCEPT
                  ![PosOf(objects, new_obj)].dz = ZOffset(idx, total)]
            /\ pc' = "s34"
            /\ UNCHANGED err
    /\ UNCHANGED <<script, argv, meshes, materials, active, mode, iterNext,
                   obj, visited, opsLog, mode0, edge_split, nextId>>
    /\ UNCHANGED svgLocals

\* float(s) takes a numeral; of the strings that occur here, those of the
\* one lexeme "0.5" or "1".
IsFloat(s) == Len(s) = 1 /\ s[1] \in {"0.5", "1"}

\* if alpha: -- None and "" are false
Truthy(s) == s # PyNone /\ s # <<>>

\* styles[obj.name].get('fill-opacity')
Alpha(st, name) == DictGet(st[name], <<"fill-opacity">>)

\* lines 34-36: alpha = styles[obj.name].get('fill-opacity'); if alpha:
\* new_obj.active_material.diffuse_color[3] = float(alpha)
S34_Alpha ==
    /\ pc = "s34"
    /\ LET alpha == Alpha(styles, ObjOf(objects, obj).name)
           m == ObjOf(objects, new_obj).material
       IN  IF ~Truthy(alpha)
           THEN /\ pc' = "s37"
                /\ UNCHANGED <<err, materials>>
           ELSE IF ~IsFloat(alpha)
           THEN /\ Raise("ValueError")
                /\ UNCHANGED materials
           ELSE IF m = None
           THEN /\ Raise("AttributeError")
                /\ UNCHANGED materials
           ELSE /\ materials' = [materials EXCEPT ![m].alpha = alpha[1]]
                /\ pc' = "s37"
                /\ UNCHANGED err
    /\ UNCHANGED <<script, argv, objects, meshes, active, mode, iterNext, obj,
                   visited, opsLog, mode0, edge_split, nextId>>
    /\ UNCHANGED svgLocals

\* line 37: bpy.context.collection.objects.link(new_obj)
S37_Link ==
    /\ pc = "s37"
    /\ objects' = [objects EXCEPT ![PosOf(objects, new_obj)].linked = TRUE]
    /\ pc' = "s38"
    /\ UNCHANGED <<script, argv, err, meshes, materials, active, mode, iterNext,
                   obj, visited, opsLog, mode0, edge_split, nextId>>
    /\ UNCHANGED svgLocals

\* line 38 left out: the curve stays in the scene.
S38_KeepCurve ==
    /\ pc = "s38"
    /\ pc' = "s40"
    /\ UNCHANGED <<script, argv, err, objects, meshes, materials, active, mode,
                   iterNext, obj, visited, opsLog, mode0, edge_split, nextId>>
    /\ UNCHANGED svgLocals

\* line 38: bpy.data.objects.remove(obj)
S38_RemoveCurve ==
    /\ pc = "s38"
    /\ ObjectsRemove(obj)
    /\ pc' = "s40"
    /\ UNCHANGED <<script, argv, err, meshes, materials, iterNext, obj, visited,
                   opsLog, mode0, edge_split, nextId>>
    /\ UNCHANGED svgLocals

\* lines 40-48: the x and y dimensions are divided by 8 and shrunk by the
\* edge ratio; delta_location.x and .y grow by 1 - ratio
S40_Scale ==
    /\ pc = "s40"
    /\ objects' = [objects EXCEPT ![PosOf(objects, new_obj)].dims = "scaled",
                                  ![PosOf(objects, new_obj)].dxy = @ + 1]
    /\ pc' = "s50"
    /\ UNCHANGED <<script, argv, err, meshes, materials, active, mode, iterNext,
                   obj, visited, opsLog, mode0, edge_split, nextId>>
    /\ UNCHANGED svgLocals

\* line 50: bpy.context.view_layer.objects.active = new_obj
S50_SetActive ==
    /\ pc = "s50"
    /\ IF CanBeActive(ObjOf(objects, new_obj))
       THEN /\ active' = new_obj
            /\ Log("objects.active", new_obj)
            /\ pc' = "s51"
            /\ UNCHANGED err
       ELSE /\ Raise("RuntimeError")
            /\ UNCHANGED <<active, opsLog>>
    /\ UNCHANGED <<script, argv, objects, meshes, materials, mode, iterNext,
                   obj, visited, mode0, edge_split, nextId>>
    /\ UNCHANGED svgLocals

\* line 51: bpy.ops.object.mode_set(mode='EDIT')
S51_EditMode ==
    /\ pc = "s51"
    /\ ModeSet("EDIT")
    /\ pc' = "s52"
    /\ UNCHANGED <<script, argv, err, objects, meshes, materials, active,
                   iterNext, obj, visited, mode0, edge_split, nextId>>
    /\ UNCHANGED svgLocals

\* lines 52-62: bm = bmesh.from_edit_mesh(bpy.context.edit_object.data);
\* everything is selected; translate, beautify_fill, remove_doubles
S52_EditMesh ==
    /\ pc = "s52"
    /\ IF EditObject = 0
       THEN /\ Raise("AttributeError")
            /\ UNCHANGED objects
       ELSE /\ objects' = [objects EXCEPT ![PosOf(objects, EditObject)].edits =
                  @ \o <<"select_all", "translate", "beautify_fill", "remove_doubles">>]
            /\ pc' = "s64"
            /\ UNCHANGED err
    /\ UNCHANGED <<script, argv, meshes, materials, active, mode, iterNext,
                   obj, visited, opsLog, mode0, edge_split, nextId>>
    /\ UNCHANGED svgLocals

\* line 64: bmesh.update_edit_mesh(bpy.context.edit_object.data)
S64_UpdateEditMesh ==
    /\ pc = "s64"
    /\ IF EditObject = 0
       THEN /\ Raise("AttributeError")
            /\ UNCHANGED opsLog
       ELSE /\ Log("update_edit_mesh", EditObject)
            /\ pc' = "s65"
            /\ UNCHANGED err
    /\ UNCHANGED <<script, argv, objects, meshes, materials, active, mode,
                   iterNext, obj, visited, mode0, edge_split, nextId>>
    /\ UNCHANGED svgLocals

\* line 65: bpy.ops.object.mode_set(mode='OBJECT'); the iteration is over
S65_ObjectMode ==
    /\ pc = "s65"
    /\ ModeSet("OBJECT")
    /\ visited' = Append(visited, obj)
    /\ pc' = "s27"
    /\ UNCHANGED <<script, argv, err, objects, meshes, materials, active,
                   iterNext, obj, mode0, edge_split, nextId>>
    /\ UNCHANGED svgLocals

\* line 67: bpy.ops.wm.save_mainfile(filepath=dst)
S67_Save ==
    /\ pc = "s67"
    /\ Log("wm.save_mainfile", LastArg)
    /\ pc' = "done"
    /\ UNCHANGED <<script, argv, err, objects, meshes, materials, active, mode,
                   iterNext, obj, visited, mode0, edge_split, nextId>>
    /\ UNCHANGED svgLocals

NextSvg == S7_Args \/ S12_Iter \/ S12_Next \/ S13_Remove \/ S15_Parse \/ S19_Ids
             \/ S20_Styles \/ S21_Total \/ S23_Import \/ S25_Curves \/ S27_Next
             \/ S28_NewObject \/ S33_Lookup \/ S33_Divide \/ S34_Alpha \/ S37_Link
             \/ S38_RemoveCurve \/ S40_Scale \/ S50_SetActive \/ S51_EditMode
             \/ S52_EditMesh \/ S64_UpdateEditMesh \/ S65_ObjectMode \/ S67_Save

Next == NextModels \/ NextBlender \/ NextSvg

Spec == Init /\ [][Next]_vars

\* =================================================================== claims
\* Host operators the log holds under a given name.
Calls(op) == {k \in DOMAIN opsLog : opsLog[k].op = op}

OutputOp ==
    CASE script = "export_models" -> "export_mesh.ply"
      [] script = "export_blender" -> "export_scene.gltf"
      [] script = "export_svg" -> "wm.save_mainfile"

\* The objects a script's loop runs over.
LoopDomain ==
    CASE script = "export_models" -> [i \in DOMAIN objects |-> objects[i].id]
      [] script = "export_blender" -> IdsOfType(objects, "MESH")
      [] script = "export_svg" -> curves

\* export_svg: the statements before and in the removal loop.
SvgClearing == {"s7", "s12", "s12_next", "s13"}

\* export_svg: the statements at which ids, styles and total are in place.
SvgAfterParsing ==
    {"s23", "s25", "s27", "s28", "s33", "s33_div", "s34", "s37", "s38", "s40",
     "s50", "s51", "s52", "s64", "s65", "s67", "done"}

\* The objects export_svg itself created: the meshes numbered past the
\* starting scene (the import creates curves only).
Created == {i \in DOMAIN objects : objects[i].type = "MESH" /\ ~PreExisting(objects[i])}

\* ----------------------------------------------------------------------- C1
\* C1: in export_svg, once the removal loop is over -- and so when the SVG
\* import operator is invoked -- no object the run started with is left in
\* bpy.data.objects, however many there were.
C1_SceneCleared ==
    (script = "export_svg" /\ pc \notin SvgClearing)
        => \A i \in DOMAIN objects : ~PreExisting(objects[i])

\* The import is about to be invoked after a loop that removed two objects.
C1_Witness ==
    /\ script = "export_svg"
    /\ pc = "s23"
    /\ obj = 2

\* ----------------------------------------------------------------------- C2
\* C2: each script invokes its output operator exactly once, as the last
\* operation of a run that went through every object of its loop, with the
\* last command-line argument as the file path; a run that ended in an error
\* never invoked it, and no run invokes it before its end.
C2_OutputOnceAtEnd ==
    /\ pc = "done" =>
         /\ Cardinality(Calls(OutputOp)) = 1
         /\ opsLog[Len(opsLog)].op = OutputOp
         /\ opsLog[Len(opsLog)].arg = argv[Len(argv)]
         /\ visited = LoopDomain
    /\ pc # "done" => Calls(OutputOp) = {}

\* A run that processed two objects and then exported.
C2_Witness ==
    /\ pc = "done"
    /\ Len(visited) = 2
    /\ script = "export_blender"

\* ----------------------------------------------------------------------- C3
\* The ';'-separated pieces of a style, as pairs <<first, last>> of
\* positions (last = first - 1 for an empty piece).
Pieces(st) ==
    { p \in (1..(Len(st) + 1)) \X (0..Len(st)) :
        /\ p[2] >= p[1] - 1
        /\ p[1] = 1 \/ st[p[1] - 1] = ";"
        /\ p[2] = Len(st) \/ st[p[2] + 1] = ";"
        /\ \A k \in p[1]..p[2] : st[k] # ";" }

Colons(st, p) == {k \in p[1]..p[2] : st[k] = ":"}

\* A list of declarations, each with exactly one ':'.
WellFormedStyle(st) ==
    /\ st # <<>>
    /\ \A p \in Pieces(st) : Cardinality(Colons(st, p)) = 1

KeyAt(st, p) == SubSeq(st, p[1], (CHOOSE c \in Colons(st, p) : TRUE) - 1)
ValueAt(st, p) == SubSeq(st, (CHOOSE c \in Colons(st, p) : TRUE) + 1, p[2])

\* d sends each declaration's key to its value, the last declaration of a
\* key winning.
IsDeclarationMap(d, st) ==
    /\ DOMAIN d = {KeyAt(st, p) : p \in Pieces(st)}
    /\ \A p \in Pieces(st) :
          (\A q \in Pieces(st) : q[1] > p[1] => KeyAt(st, q) # KeyAt(st, p))
              => d[KeyAt(st, p)] = ValueAt(st, p)

Unstyled(a) == "style" \notin DOMAIN a \/ a["style"] = <<>>

\* The path is the last one of the document with its id.
LastWithId(i) == \A j \in DOMAIN attribs : j > i => attribs[j]["id"] # attribs[i]["id"]

\* What the claim says of the path elements in Which, where styles has just
\* been computed; from there on neither attribs nor styles changes.
StylesAgree(Which(_)) ==
    /\ (script = "export_svg" /\ pc = "s21") =>
          \A i \in DOMAIN attribs : Which(i) =>
              LET a == attribs[i]
              IN  /\ ("style" \in DOMAIN a /\ WellFormedStyle(a["style"]))
                        => IsDeclarationMap(styles[a["id"]], a["style"])
                  /\ Unstyled(a) => <<"fill-opacity">> \notin DOMAIN styles[a["id"]]
    /\ (script = "export_svg" /\ pc \in SvgAfterParsing \cup {"s21"}) =>
          (attribs' = attribs /\ styles' = styles)

\* The step of lines 34-36 for a curve named after an unstyled path in Which
\* leaves every material as it was.
AlphaKept(Which(_)) ==
    (pc = "s34" /\ \E i \in DOMAIN attribs :
                      /\ Which(i)
                      /\ Unstyled(attribs[i])
                      /\ attribs[i]["id"] = ObjOf(objects, obj).name)
        => materials' = materials

AnyPath(i) == TRUE

\* C3 as stated: for every path element with a well-formed style, styles[id]
\* is the map of its declarations; for every path element without a style,
\* styles[id] has no 'fill-opacity' key and the material's alpha is left
\* unchanged.
C3_Original == [][StylesAgree(AnyPath) /\ AlphaKept(AnyPath)]_vars

\* C3, amended: the same, for every path element that is the last of the
\* document with its id (styles is keyed by id, and a later path of the same
\* id replaces the entry of an earlier one).
C3_StylesOfLastPath == [][StylesAgree(LastWithId) /\ AlphaKept(LastWithId)]_vars

\* The alpha step is about to run for a curve named after an unstyled path
\* that follows a styled path, with a repeated key, of another id.
C3_Witness ==
    /\ script = "export_svg"
    /\ pc = "s34"
    /\ Len(attribs) = 2
    /\ attribs[1] = Attrib(<<"a", 0>>,
                           <<"fill", ":", "#f00", ";",
                             "fill-opacity", ":", "0.5", ";", "fill-opacity", ":", "1">>)
    /\ DictGet(styles[<<"a", 0>>], <<"fill-opacity">>) = <<"1">>
    /\ Unstyled(attribs[2])
    /\ ObjOf(objects, obj).name = attribs[2]["id"]
    /\ ObjOf(objects, new_obj).material # None

\* ----------------------------------------------------------------------- C4
\* The mesh objects using mesh m that have an active material, in
\* collection order.
Bakers(m) ==
    SelectSeq(objects, LAMBDA o : o.type = "MESH" /\ o.data = m /\ o.material # None)

Baked(attr, color) ==
    /\ attr.name = "Col"
    /\ attr.type = "BYTE_COLOR"
    /\ attr.domain = "CORNER"
    /\ \A c \in DOMAIN attr.data : attr.data[c] = color

BlenderLoopOver == script = "export_blender" /\ pc \in {"b40", "done"}

\* C4 as stated: after the loop, every MESH object that had no colour
\* attribute and has an active material carries exactly one new colour
\* attribute 'Col' (byte colour, corner domain) filled with that material's
\* diffuse colour; every other MESH object has its colour attributes
\* unchanged; no non-MESH object is modified at all.
C4_Original ==
    BlenderLoopOver =>
        \A i \in DOMAIN objects :
            LET o == objects[i]
            IN  IF o.type # "MESH" THEN o = Original(o)
                ELSE IF Meshes0[o.data].color_attributes = <<>> /\ o.material # None
                THEN /\ Len(meshes[o.data].color_attributes) = 1
                     /\ Baked(meshes[o.data].color_attributes[1],
                              materials[o.material].diffuse_color)
                ELSE meshes[o.data].color_attributes = Meshes0[o.data].color_attributes

\* C4, amended: colour attributes belong to the mesh data, which objects may
\* share.  After the loop, every mesh that had no colour attribute and is
\* the data of a MESH object with an active material carries exactly one new
\* colour attribute 'Col' (byte colour, corner domain), every element of
\* which was given the diffuse colour of the active material of the first
\* such object in collection order; the colour attributes of every other
\* mesh are unchanged; and the only change the script ever makes to a
\* non-MESH object is to deselect it, before the loop, if it is the active
\* object.
C4_BakePerMesh ==
    [][ script = "export_blender" =>
          /\ BlenderLoopOver =>
                \A m \in DOMAIN meshes :
                    IF Meshes0[m].color_attributes = <<>> /\ Bakers(m) # <<>>
                    THEN /\ Len(meshes[m].color_attributes) = 1
                         /\ Baked(meshes[m].color_attributes[1],
                                  materials[Bakers(m)[1].material].diffuse_color)
                    ELSE meshes[m].color_attributes = Meshes0[m].color_attributes
          /\ Len(objects') = Len(objects)
          /\ \A i \in DOMAIN objects :
                objects[i].type # "MESH" =>
                    \/ objects'[i] = objects[i]
                    \/ /\ pc = "b7"
                       /\ objects[i].id = active
                       /\ objects'[i] = [objects[i] EXCEPT !.select = FALSE]
      ]_vars

\* The loop is over in a scene where a mesh with an active material shares
\* its data with an earlier mesh of another material, and the data was baked.
C4_Witness ==
    /\ BlenderLoopOver
    /\ Len(Bakers("mesh1")) = 2
    /\ Bakers("mesh1")[1].material # Bakers("mesh1")[2].material
    /\ meshes["mesh1"].color_attributes # <<>>

BadStyle(a) ==
    /\ ~Unstyled(a)
    /\ \E p \in Pieces(a["style"]) : Cardinality(Colons(a["style"], p)) # 1

\* C6: in export_svg, a document with a path that lacks an id, or whose style
\* has a piece that does not split on ':' into exactly two parts, gets no
\* further than the two statements that parse the attributes: the run ends
\* there in a KeyError or a ValueError, with every object of the starting
\* scene removed, the import not invoked and the file never saved.
C6_AbortsWhileParsing ==
    (script = "export_svg" /\ \E i \in DOMAIN attribs :
                                 "id" \notin DOMAIN attribs[i] \/ BadStyle(attribs[i]))
        => /\ pc \in {"s19", "s20", "error"}
           /\ pc = "s20" => \A i \in DOMAIN attribs : "id" \in DOMAIN attribs[i]
           /\ pc = "error" => err \in {"KeyError", "ValueError"}
           /\ \A i \in DOMAIN objects : ~PreExisting(objects[i])
           /\ Calls("import_curve.svg") = {}
           /\ Calls("wm.save_mainfile") = {}

\* A run that removed two objects and then died on a style with a trailing ';'.
C6_Witness ==
    /\ script = "export_svg"
    /\ pc = "error"
    /\ err = "ValueError"
    /\ obj = 2
    /\ \E i \in DOMAIN attribs : /\ "style" \in DOMAIN attribs[i]
                                 /\ attribs[i]["style"] = <<"fill", ":", "#f00", ";">>

\* ----------------------------------------------------------------------- C7
\* C7: in export_svg, when save_mainfile is invoked every curve found after
\* the import is gone from bpy.data.objects, no CURVE object is left, and the
\* script has created as many objects as there were curves, each a mesh
\* linked into the collection.
C7_CurvesReplaced ==
    (script = "export_svg" /\ pc \in {"s67", "done"}) =>
        /\ \A i \in DOMAIN objects : objects[i].type # "CURVE"
        /\ \A k \in DOMAIN curves : curves[k] \notin ObjIds(objects)
        /\ Cardinality(Created) = Len(curves)
        /\ \A i \in Created : objects[i].linked

\* A run that replaced two curves and saved.
C7_Witness ==
    /\ script = "export_svg"
    /\ pc = "done"
    /\ Len(curves) = 2

\* ----------------------------------------------------------------------- C8
\* C8: in export_svg, whenever the division of line 33 is performed the index
\* looked up satisfies 0 <= ids[obj.name] < total, so total >= 1; no run ends
\* in a division by zero, and a run over a document without paths that gets
\* to line 33 ends in the KeyError of the lookup.
C8_NoDivisionByZero ==
    script = "export_svg" =>
        /\ pc = "s33_div" => (0 <= idx /\ idx < total /\ total >= 1)
        /\ err # "ZeroDivisionError"
        /\ (pc = "error" /\ total = 0 /\ new_obj # 0) => err = "KeyError"

\* The division is about to be performed for the second of two paths.
C8_Witness ==
    /\ script = "export_svg"
    /\ pc = "s33_div"
    /\ idx = 1
    /\ total = 2

\* ----------------------------------------------------------------------- C9
DistinctIds == \A i, j \in DOMAIN attribs : i # j => attribs[i]["id"] # attribs[j]["id"]

\* Document position, from 0, of the last path with this id.
LastPosition(id) ==
    (CHOOSE i \in DOMAIN attribs :
        attribs[i]["id"] = id /\ \A j \in DOMAIN attribs : j > i => attribs[j]["id"] # id) - 1

\* Fractions with positive denominators.
Less(x, y) == x[1] * y[2] < y[1] * x[2]

\* The created objects whose delta_location.z has been set.
Placed == {i \in Created : objects[i].dz # <<>>}

\* The path a created object stands for: it was named after its curve, which
\* was named after the path's id.
PathOf(o) == <<o.name[1], 0>>

\* C9: in export_svg, with pairwise distinct path ids, ids maps each id to its
\* document position 0..n-1, and of two processed curves the one whose path
\* comes later has the strictly larger delta_location.z; with a repeated id,
\* ids keeps the position of the last occurrence, and total counts every path.
C9_IdsAndOffsets ==
    (script = "export_svg" /\ pc \in SvgAfterParsing) =>
        /\ total = Len(attribs)
        /\ DOMAIN ids = {attribs[i]["id"] : i \in DOMAIN attribs}
        /\ \A id \in DOMAIN ids : ids[id] = LastPosition(id)
        /\ DistinctIds =>
              /\ \A i \in DOMAIN attribs : ids[attribs[i]["id"]] = i - 1
              /\ \A i, j \in Placed :
                    LastPosition(PathOf(objects[i])) < LastPosition(PathOf(objects[j]))
                        => Less(objects[i].dz, objects[j].dz)

\* Two curves of a two-path document have been placed, at different heights.
C9_Witness ==
    /\ script = "export_svg"
    /\ pc = "done"
    /\ DistinctIds
    /\ Cardinality(Placed) = 2
    /\ \E i, j \in Placed : Less(objects[i].dz, objects[j].dz)

\* ---------------------------------------------------------------------- C10
\* The log's entries of the edit cycle.
EditLog ==
    SelectSeq(opsLog, LAMBDA e : e.op \in {"objects.active", "mode_set", "update_edit_mesh"})

\* C10: in export_blender and export_svg, a run that starts in OBJECT mode is
\* in OBJECT mode whenever a loop iteration starts and when the final export
\* or save is invoked; each iteration makes its object active, enters EDIT
\* mode, writes the edit mesh of that object back and returns to OBJECT
\* mode, in this order, and an object is made active in OBJECT mode only.
C10_EditCycle ==
    (script \in {"export_blender", "export_svg"} /\ mode0 = "OBJECT") =>
        /\ pc \in {"b12_next", "b13", "b40", "s27", "s28", "s67"} => mode = "OBJECT"
        /\ pc \in {"b17", "s51"} => mode = "OBJECT"
        /\ pc \in {"b18", "b29", "b30", "s52", "s64", "s65"} => mode = "EDIT"
        /\ \A k \in DOMAIN EditLog :
              LET e == EditLog[k]
              IN  CASE k % 4 = 1 -> e.op = "objects.active"
                    [] k % 4 = 2 -> e.op = "mode_set" /\ e.arg = "EDIT"
                    [] k % 4 = 3 -> e.op = "update_edit_mesh" /\ e.arg = EditLog[k - 2].arg
                    [] k % 4 = 0 -> e.op = "mode_set" /\ e.arg = "OBJECT"

\* The second iteration of export_blender's loop is about to start.
C10_Witness ==
    /\ script = "export_blender"
    /\ mode0 = "OBJECT"
    /\ pc = "b13"
    /\ Len(visited) = 1
    /\ Len(EditLog) = 4

====
